---- MODULE Spec2Model ----
(***************************************************************************)
(* A model of backend/main.py: the mastering chain (master_chain and its   *)
(* stages _to_float32_audio, _highpass, _soft_limiter, _true_peak_guard)   *)
(* and the /master endpoint that decodes an upload, runs the chain and     *)
(* encodes the result.                                                     *)
(*                                                                         *)
(* Numbers.  A float is a record [k, v]: k = "fin" with v the value in     *)
(* units of 1/S (fixed point, rounded to nearest), k = "inf" with v the    *)
(* sign, or k = "nan".  The arithmetic follows IEEE-754 for the special    *)
(* values (0 * inf = nan, inf - inf = nan, comparisons with nan are false, *)
(* max propagates nan as numpy's does).  Decibel quantities are whole dB.  *)
(***************************************************************************)
EXTENDS Integers, Sequences, FiniteSets

VARIABLES pc, input, audio, loudness, gain_db, gain, trace, response

vars == <<pc, input, audio, loudness, gain_db, gain, trace, response>>

(* ---------------------------------------------------------------- bounds *)
MaxFrames == 4
MaxCh == 3
GuardFrames == 2
NumRequests == 2

(* ------------------------------------------------------------- constants *)
\* one unit of the fixed-point representation of a float32 sample is 1/S
S == 1000
HighpassCutoffHz == 80
LimiterThreshold == 950
DefaultThreshold == 950
TargetPeakDb == -1
DefaultTargetLufs == -14
\* the spec's MasteringConfig.maxGainDB; the source has no such constant
maxGainDB == 24

(* ------------------------------------------------------- integer helpers *)
Abs(x) == IF x < 0 THEN -x ELSE x
Sgn(x) == IF x < 0 THEN -1 ELSE IF x > 0 THEN 1 ELSE 0

\* a / b rounded to the nearest integer (halves away from zero), b > 0
RDiv(a, b) == Sgn(a) * ((2 * Abs(a) + b) \div (2 * b))

RECURSIVE Pow10(_)
Pow10(n) == IF n <= 0 THEN 1 ELSE 10 * Pow10(n - 1)

(* ---------------------------------------------------------------- floats *)
Fin(v) == [k |-> "fin", v |-> v]
PInf == [k |-> "inf", v |-> 1]
NInf == [k |-> "inf", v |-> -1]
NaN == [k |-> "nan", v |-> 0]
Inf(s) == IF s < 0 THEN NInf ELSE PInf

IsFinite(a) == a.k = "fin"
IsNaN(a) == a.k = "nan"
IsZero(a) == a.k = "fin" /\ a.v = 0

FNeg(a) == IF a.k = "nan" THEN NaN ELSE [k |-> a.k, v |-> -a.v]
FAbs(a) == IF a.k = "nan" THEN NaN ELSE [k |-> a.k, v |-> Abs(a.v)]

FAdd(a, b) ==
  IF a.k = "nan" \/ b.k = "nan" THEN NaN
  ELSE IF a.k = "inf" /\ b.k = "inf" THEN (IF a.v = b.v THEN a ELSE NaN)
  ELSE IF a.k = "inf" THEN a
  ELSE IF b.k = "inf" THEN b
  ELSE Fin(a.v + b.v)

FSub(a, b) == FAdd(a, FNeg(b))

FMul(a, b) ==
  IF a.k = "nan" \/ b.k = "nan" THEN NaN
  ELSE IF a.k = "inf" \/ b.k = "inf"
       THEN (IF IsZero(a) \/ IsZero(b) THEN NaN ELSE Inf(Sgn(a.v) * Sgn(b.v)))
  ELSE Fin(RDiv(a.v * b.v, S))

\* numpy's array division: x / 0 is +-inf, 0 / 0 is nan
FDiv(a, b) ==
  IF a.k = "nan" \/ b.k = "nan" THEN NaN
  ELSE IF a.k = "inf" THEN (IF b.k = "inf" THEN NaN
                            ELSE Inf(a.v * (IF b.v < 0 THEN -1 ELSE 1)))
  ELSE IF b.k = "inf" THEN Fin(0)
  ELSE IF b.v = 0 THEN (IF a.v = 0 THEN NaN ELSE Inf(a.v))
  ELSE Fin(RDiv(a.v * S * Sgn(b.v), Abs(b.v)))

\* a <= b and a > b; both are false when either side is nan
FLe(a, b) ==
  IF a.k = "nan" \/ b.k = "nan" THEN FALSE
  ELSE IF a.k = "inf" THEN (a.v < 0 \/ (b.k = "inf" /\ b.v > 0))
  ELSE IF b.k = "inf" THEN b.v > 0
  ELSE a.v <= b.v

FGt(a, b) == IF a.k = "nan" \/ b.k = "nan" THEN FALSE ELSE ~FLe(a, b)

\* np.tanh on one value: a Pade (3,2) approximant x(27+x^2)/(27+9x^2) on
\* |x| < 3, saturating at +-1 beyond (float32 tanh is exactly +-1.0 there)
TanhFix(x) ==
  IF Abs(x) >= 3 * S THEN Sgn(x) * S
  ELSE LET x2 == RDiv(x * x, S)
       IN  RDiv(x * (27 * S + x2), 27 * S + 9 * x2)

FTanh(a) ==
  IF a.k = "nan" THEN NaN
  ELSE IF a.k = "inf" THEN Fin(a.v * S)
  ELSE Fin(TanhFix(a.v))

\* 1000 * 10^(r/20) for r = 0..19
Pow10Table == <<1000, 1122, 1259, 1413, 1585, 1778, 1995, 2239, 2512, 2818,
                3162, 3548, 3981, 4467, 5012, 5623, 6310, 7079, 7943, 8913>>

\* S * 10^(d/20) for a whole number d of decibels
Pow10Div20(d) ==
  LET q == IF d >= 0 THEN d \div 20 ELSE -((-d + 19) \div 20)
      m == Pow10Table[(d - 20 * q) + 1]
  IN  IF q >= 1 THEN RDiv(m * S * Pow10(q - 1), 100)
      ELSE IF q < -5 THEN 0
      ELSE RDiv(m * S, 1000 * Pow10(-q))

\* 10.0 ** (db / 20.0); db holds whole decibels, the result is in units of 1/S
DbToLin(db) ==
  IF db.k = "nan" THEN NaN
  ELSE IF db.k = "inf" THEN (IF db.v > 0 THEN PInf ELSE Fin(0))
  ELSE Fin(Pow10Div20(db.v))

\* 100 * 10^(k/10) for k = 0..9
DbTable == <<100, 126, 158, 200, 251, 316, 398, 501, 631, 794>>

\* floor(10 * log10(num / (100 * c))) for num, c > 0
RECURSIVE Db10(_, _)
Db10(num, c) ==
  IF num >= 1000 * c THEN 10 + Db10(num, 10 * c)
  ELSE IF num < 100 * c THEN Db10(10 * num, c) - 10
  ELSE Cardinality({k \in 1..10 : num >= DbTable[k] * c}) - 1

(* --------------------------------------------------------------- buffers *)
\* A numpy array of shape (n,) (ndim = 1, nch = 1) or (n, nch) (ndim = 2):
\* fr[i][ch] is the sample of frame i, channel ch.  kind/bits are its dtype.
Buf(kind, bits, ndim, nch, fr) ==
  [kind |-> kind, bits |-> bits, ndim |-> ndim, nch |-> nch, fr |-> fr]

EmptyBuf == Buf("f", 32, 1, 1, <<>>)

NFrames(b) == Len(b.fr)
Shape(b) == IF b.ndim = 1 THEN <<NFrames(b)>> ELSE <<NFrames(b), b.nch>>
Size(b) == NFrames(b) * b.nch
Samples(b) == {b.fr[i][ch] : i \in 1..NFrames(b), ch \in 1..b.nch}
AllZero(b) == \A x \in Samples(b) : IsZero(x)
AllFinite(b) == \A x \in Samples(b) : IsFinite(x)

\* the array with every sample x replaced by f[x], as float32
MapBuf(f, b) ==
  Buf("f", 32, b.ndim, b.nch,
      [i \in 1..NFrames(b) |-> [ch \in 1..b.nch |-> f[b.fr[i][ch]]]])

\* audio[:, :2]
FirstTwo(b) ==
  Buf(b.kind, b.bits, 2, 2,
      [i \in 1..NFrames(b) |-> [ch \in 1..2 |-> b.fr[i][ch]]])

\* np.max(np.abs(audio)): nan if any sample is nan
RECURSIVE MaxOf(_)
MaxOf(xs) ==
  IF xs = {} THEN Fin(0)
  ELSE LET x == CHOOSE y \in xs : TRUE
           m == MaxOf(xs \ {x})
       IN  IF FLe(m, x) THEN x ELSE m

PeakOf(b) ==
  LET mags == {FAbs(x) : x \in Samples(b)}
  IN  IF \E x \in mags : IsNaN(x) THEN NaN ELSE MaxOf(mags)

(* ----------------------------------------------------- _to_float32_audio *)
\* np.iinfo(data.dtype).max
IInfoMax(kind, bits) ==
  IF kind = "i" THEN 2 ^ (bits - 1) - 1 ELSE 2 ^ bits - 1

\* np.iinfo(data.dtype).min
IInfoMin(kind, bits) == IF kind = "i" THEN -(2 ^ (bits - 1)) ELSE 0

\* Integer samples hold the raw integer in v and are divided by max_val; float
\* samples are in units of 1/S already and the cast to float32 keeps them.
ToFloat32Sample(kind, bits, x) ==
  IF kind \in {"i", "u"} THEN Fin(RDiv(x.v * S, IInfoMax(kind, bits))) ELSE x

ToFloat32Audio(data) ==
  MapBuf([x \in Samples(data) |-> ToFloat32Sample(data.kind, data.bits, x)],
         data)

(* -------------------------------------------------------------- _highpass *)
\* a = rc / (rc + dt) with dt = 1/sr, rc = 1/(2 pi f), i.e. sr / (sr + 2 pi f);
\* pi is taken as 355/113
HighpassCoeff(sr, cutoff_hz) ==
  Fin(RDiv(113 * sr * S, 113 * sr + 710 * cutoff_hz))

\* the loop over one channel: y[i] = a * (y_prev + x - x_prev)
RECURSIVE HighpassLoop(_, _, _, _, _)
HighpassLoop(xs, a, x_prev, y_prev, ys) ==
  IF xs = <<>> THEN ys
  ELSE LET x == Head(xs)
           y_i == FMul(a, FSub(FAdd(y_prev, x), x_prev))
       IN  HighpassLoop(Tail(xs), a, x, y_i, Append(ys, y_i))

\* x_prev = 0.0; y_prev = 0.0 at the start of every channel of every call
HighpassMono(xs, sr, cutoff_hz) ==
  HighpassLoop(xs, HighpassCoeff(sr, cutoff_hz), Fin(0), Fin(0), <<>>)

Column(b, ch) == [i \in 1..NFrames(b) |-> b.fr[i][ch]]

Highpass(b, sr, cutoff_hz) ==
  LET out == [ch \in 1..b.nch |-> HighpassMono(Column(b, ch), sr, cutoff_hz)]
  IN  Buf("f", 32, b.ndim, b.nch,
          [i \in 1..NFrames(b) |-> [ch \in 1..b.nch |-> out[ch][i]]])

(* ---------------------------------------------------------- _soft_limiter *)
SoftLimiter(b, threshold) ==
  LET thr == IF threshold <= 0 \/ threshold > S THEN DefaultThreshold
             ELSE threshold
  IN  MapBuf([x \in Samples(b) |-> FMul(FTanh(FDiv(x, Fin(thr))), Fin(thr))],
             b)

(* ------------------------------------------------------- _true_peak_guard *)
GuardPeak(b) == IF Size(b) # 0 THEN PeakOf(b) ELSE Fin(0)

GuardTarget(target_peak_db) == DbToLin(Fin(target_peak_db))

\* if peak > target: the buffer is to be scaled
GuardScales(peak, target) == FGt(peak, target)

\* mutation: the factor is inverted
GuardFactorInverted(peak, target) == FDiv(peak, target)

\* target / peak
GuardFactor(peak, target) == FDiv(target, peak)

TruePeakGuard(b, target_peak_db) ==
  LET peak == GuardPeak(b)
      target == GuardTarget(target_peak_db)
  IN  IF FLe(peak, Fin(0)) THEN b
      ELSE IF GuardScales(peak, target)
           THEN MapBuf([x \in Samples(b) |->
                          FMul(x, GuardFactor(peak, target))], b)
      ELSE MapBuf([x \in Samples(b) |-> x], b)

(* --------------------------------- pyln.Meter(sr).integrated_loudness(...) *)
\* The library's gated block-energy measurement, at whole-dB resolution and
\* without the K-weighting pre-filter: 400 ms blocks every 100 ms, the
\* absolute gate at -70 LUFS, the relative gate 10 LU under the gated mean.
AbsoluteGate == -70
RelativeGate == 10

\* the library refuses audio shorter than one block (0.4 * rate frames)
MeterRaises(b, rate) == 10 * NFrames(b) < 4 * rate

NumBlocks(b, rate) == RDiv(10 * NFrames(b) - 4 * rate, rate) + 1

RECURSIVE SumSeq(_)
SumSeq(s) == IF s = <<>> THEN 0 ELSE Head(s) + SumSeq(Tail(s))

\* per frame, the squared samples of block j (0-based) summed over the channels
BlockEnergy(b, rate, j) ==
  LET l == (j * rate) \div 10
      u == ((j + 4) * rate) \div 10
  IN  [i \in 1..NFrames(b) |->
         IF i > l /\ i <= u
         THEN SumSeq([ch \in 1..b.nch |-> b.fr[i][ch].v * b.fr[i][ch].v])
         ELSE 0]

RECURSIVE SumOver(_, _)
SumOver(f, D) ==
  IF D = {} THEN 0
  ELSE LET d == CHOOSE x \in D : TRUE IN f[d] + SumOver(f, D \ {d})

\* -0.691 + 10 log10(e / (n * 0.4 * rate)) in whole dB, e in units of 1/S^2:
\* the mean square over n blocks is e * 10 / (4 * rate * n * S * S)
Lufs(e, n, rate) ==
  IF e <= 0 \/ n <= 0 THEN NInf
  ELSE Fin(Db10(e, 4 * rate * n * ((S * S) \div 1000)) - 1)

IntegratedLoudness(b, rate) ==
  IF ~AllFinite(b) THEN NaN ELSE
  LET J == 0..(NumBlocks(b, rate) - 1)
      e == [j \in J |-> SumSeq(BlockEnergy(b, rate, j))]
      l == [j \in J |-> Lufs(e[j], 1, rate)]
      Jg == {j \in J : FLe(Fin(AbsoluteGate), l[j])}
      gamma_r == FSub(Lufs(SumOver(e, Jg), Cardinality(Jg), rate),
                      Fin(RelativeGate))
      Jr == {j \in J : FGt(l[j], gamma_r) /\ FGt(l[j], Fin(AbsoluteGate))}
  IN  Lufs(SumOver(e, Jr), Cardinality(Jr), rate)

(* ------------------------------------------------------------ master_chain *)
Requests == 1..NumRequests

\* mutation: the locals are module-level state that all invocations share
SharedLocal(r) == 1

\* the locals of invocation r (audio, meter, loudness, gain_db, gain) are its own
Local(r) == r

StageOrder ==
  <<"normalize", "highpass", "measure", "compute_gain", "apply_gain",
    "limit", "guard">>

\* mutation: the peak guard runs before the soft limiter
StageAfterGuardFirst(s) ==
  CASE s = "apply_gain" -> "guard"
    [] s = "guard" -> "limit"
    [] s = "limit" -> "returned"
    [] OTHER -> LET i == CHOOSE k \in 1..Len(StageOrder) : StageOrder[k] = s
                IN  StageOrder[i + 1]

\* the statement that follows stage s in master_chain; the return after the last
StageAfter(s) ==
  LET i == CHOOSE k \in 1..Len(StageOrder) : StageOrder[k] = s
  IN  IF i = Len(StageOrder) THEN "returned" ELSE StageOrder[i + 1]

\* audio_for_lufs: the first two channels of a buffer of more than two
AudioForLufs(b) == IF b.ndim = 2 /\ b.nch > 2 THEN FirstTwo(b) ELSE b

\* mutation: the gain is applied to the buffer that was measured
GainInputForLufs(b, for_lufs) == for_lufs

\* the buffer the gain multiplies: audio, not audio_for_lufs
GainInput(b, for_lufs) == b

Log(r, stage, b) == [trace EXCEPT ![r] = Append(@, [stage |-> stage, out |-> b])]

Normalize(r) ==
  /\ pc[r] = "normalize"
  /\ audio' = [audio EXCEPT ![Local(r)] = ToFloat32Audio(input[r].data)]
  /\ trace' = Log(r, "normalize", audio'[Local(r)])
  /\ pc' = [pc EXCEPT ![r] = StageAfter("normalize")]
  /\ UNCHANGED <<input, loudness, gain_db, gain, response>>

HighpassStage(r) ==
  /\ pc[r] = "highpass"
  /\ audio' = [audio EXCEPT ![Local(r)] =
                 Highpass(audio[Local(r)], input[r].sr, HighpassCutoffHz)]
  /\ trace' = Log(r, "highpass", audio'[Local(r)])
  /\ pc' = [pc EXCEPT ![r] = StageAfter("highpass")]
  /\ UNCHANGED <<input, loudness, gain_db, gain, response>>

\* meter = pyln.Meter(sr); loudness = meter.integrated_loudness(audio_for_lufs)
Measure(r) ==
  /\ pc[r] = "measure"
  /\ LET for_lufs == AudioForLufs(audio[Local(r)])
     IN  IF MeterRaises(for_lufs, input[r].sr)
         THEN /\ pc' = [pc EXCEPT ![r] = "raised"]
              /\ UNCHANGED <<loudness, trace>>
         ELSE /\ loudness' = [loudness EXCEPT ![Local(r)] =
                                IntegratedLoudness(for_lufs, input[r].sr)]
              /\ trace' = Log(r, "measure", for_lufs)
              /\ pc' = [pc EXCEPT ![r] = StageAfter("measure")]
  /\ UNCHANGED <<input, audio, gain_db, gain, response>>

ComputeGain(r) ==
  /\ pc[r] = "compute_gain"
  /\ gain_db' = [gain_db EXCEPT ![Local(r)] =
                   FSub(input[r].target_lufs, loudness[Local(r)])]
  /\ gain' = [gain EXCEPT ![Local(r)] = DbToLin(gain_db'[Local(r)])]
  /\ trace' = Log(r, "compute_gain", audio[Local(r)])
  /\ pc' = [pc EXCEPT ![r] = StageAfter("compute_gain")]
  /\ UNCHANGED <<input, audio, loudness, response>>

ApplyGain(r) ==
  /\ pc[r] = "apply_gain"
  /\ LET b == GainInput(audio[Local(r)], AudioForLufs(audio[Local(r)]))
     IN  audio' = [audio EXCEPT ![Local(r)] =
                     MapBuf([x \in Samples(b) |-> FMul(x, gain[Local(r)])], b)]
  /\ trace' = Log(r, "apply_gain", audio'[Local(r)])
  /\ pc' = [pc EXCEPT ![r] = StageAfter("apply_gain")]
  /\ UNCHANGED <<input, loudness, gain_db, gain, response>>

Limit(r) ==
  /\ pc[r] = "limit"
  /\ audio' = [audio EXCEPT ![Local(r)] =
                 SoftLimiter(audio[Local(r)], LimiterThreshold)]
  /\ trace' = Log(r, "limit", audio'[Local(r)])
  /\ pc' = [pc EXCEPT ![r] = StageAfter("limit")]
  /\ UNCHANGED <<input, loudness, gain_db, gain, response>>

Guard(r) ==
  /\ pc[r] = "guard"
  /\ audio' = [audio EXCEPT ![Local(r)] =
                 TruePeakGuard(audio[Local(r)], TargetPeakDb)]
  /\ trace' = Log(r, "guard", audio'[Local(r)])
  /\ pc' = [pc EXCEPT ![r] = StageAfter("guard")]
  /\ UNCHANGED <<input, loudness, gain_db, gain, response>>

(* ----------------------------------------------------------------- inputs *)
SeqsUpTo(V, n) == UNION {[1..k -> V] : k \in 0..n}

\* sample values of a float upload, in units of 1/S
SampleVals == {0, 300, -1000}
\* sample rates at which the meter's 400 ms block is 2 and 4 frames
SampleRates == {5, 10}

\* a float64 array whose frame i holds vs[i] on channel 1, -vs[i] on channel 2
\* and w on every further channel
GenBuf(ndim, nch, vs, w) ==
  Buf("f", 64, ndim, nch,
      [i \in 1..Len(vs) |->
         [ch \in 1..nch |-> IF ch = 1 THEN Fin(vs[i])
                            ELSE IF ch = 2 THEN Fin(-vs[i]) ELSE Fin(w)]])

ChainBuffers ==
  {GenBuf(1, 1, vs, 0) : vs \in SeqsUpTo(SampleVals, MaxFrames)}
  \cup {GenBuf(2, c, vs, w) : vs \in SeqsUpTo(SampleVals, MaxFrames),
                             c \in 1..MaxCh, w \in SampleVals}

NoRequest ==
  [present |-> FALSE, decode_ok |-> FALSE, data |-> EmptyBuf, sr |-> 5,
   format |-> "wav", target_lufs |-> Fin(DefaultTargetLufs), enc_ok |-> FALSE]

NoResponse == [status |-> 0, media_type |-> "", body |-> <<>>]

\* a direct call master_chain(data, sr, target_lufs)
ChainCall(data, sr, target) ==
  [present |-> TRUE, decode_ok |-> TRUE, data |-> data, sr |-> sr,
   format |-> "wav", target_lufs |-> target, enc_ok |-> FALSE]

Start(in, start, arg) ==
  /\ input = in
  /\ pc = [r \in Requests |-> IF in[r].present THEN start ELSE "absent"]
  /\ audio = [r \in Requests |-> IF in[r].present THEN arg ELSE EmptyBuf]
  /\ loudness = [r \in Requests |-> Fin(0)]
  /\ gain_db = [r \in Requests |-> Fin(0)]
  /\ gain = [r \in Requests |-> Fin(0)]
  /\ trace = [r \in Requests |-> <<>>]
  /\ response = [r \in Requests |-> NoResponse]

Only(req) == [r \in Requests |-> IF r = 1 THEN req ELSE NoRequest]

ChainTargets == {Fin(DefaultTargetLufs), Fin(6)}

InitChain ==
  \E data \in ChainBuffers, sr \in SampleRates, t \in ChainTargets :
    Start(Only(ChainCall(data, sr, t)), "normalize", EmptyBuf)

NextChain ==
  \E r \in Requests :
    \/ Normalize(r)
    \/ HighpassStage(r)
    \/ Measure(r)
    \/ ComputeGain(r)
    \/ ApplyGain(r)
    \/ Limit(r)
    \/ Guard(r)

SpecChain == InitChain /\ [][NextChain]_vars

(* ------------------------------------------------- master_chain: claims *)
StageNames(r) == [i \in 1..Len(trace[r]) |-> trace[r][i].stage]
IsPrefix(s, u) == Len(s) <= Len(u) /\ \A i \in 1..Len(s) : s[i] = u[i]
InChain(r) == \E i \in 1..Len(StageOrder) : StageOrder[i] = pc[r]
Returned(r) == pc[r] = "returned"
Done(r) == pc[r] = "done"
Present(r) == input[r].present

C2_ShapePreserved ==
  \A r \in Requests :
    /\ \A i \in 1..Len(trace[r]) :
         trace[r][i].stage # "measure"
           => Shape(trace[r][i].out) = Shape(input[r].data)
    /\ Returned(r) => Shape(audio[r]) = Shape(input[r].data)

C2_Witness ==
  /\ Returned(1)
  /\ input[1].data.nch > 2
  /\ NFrames(input[1].data) >= 2
  /\ audio[1].nch = input[1].data.nch
  /\ trace[1][3].out.nch = 2

\* C3: for every non-silent input, no sample of the buffer master_chain
\* returns exceeds targetPeakLinear = 10^(peakCeilingDB/20) in magnitude.
C3_PeakWithinCeiling ==
  \A r \in Requests :
    (Returned(r) /\ ~AllZero(input[r].data))
      => \A x \in Samples(audio[r]) :
           FLe(FAbs(x), GuardTarget(TargetPeakDb))

\* C4: a measured loudness of -infinity makes the gain maxGainDB, and an
\* all-zero input comes back all-zero, with no NaN or Infinity sample.
C4_SilenceClamped ==
  \A r \in Requests :
    /\ (Len(trace[r]) >= 4 /\ loudness[r] = NInf) => gain_db[r] = Fin(maxGainDB)
    /\ (Returned(r) /\ AllZero(input[r].data))
         => (AllFinite(audio[r]) /\ AllZero(audio[r]))

(* ------------------------------------- the stage functions called alone *)
\* every value of an 8-bit signed and an 8-bit unsigned sample
IntDtypes == {<<"i", 8>>, <<"u", 8>>}

IntBuffers ==
  {Buf(d[1], d[2], 1, 1, <<<<Fin(v)>>>>) :
     d \in IntDtypes, v \in -(2 ^ 7)..(2 ^ 8 - 1)}

NormalizeInputs ==
  {b \in IntBuffers :
     \A x \in Samples(b) : /\ x.v >= IInfoMin(b.kind, b.bits)
                           /\ x.v <= IInfoMax(b.kind, b.bits)}
  \cup {GenBuf(1, 1, vs, 0) : vs \in SeqsUpTo(SampleVals, 1)}

\* float32 buffers handed to _true_peak_guard: silent, under, at and over the
\* ceiling, infinite and nan samples
GuardVals == {Fin(0), Fin(500), Fin(-891), Fin(2500), PInf, NaN}

GuardInputs ==
  {Buf("f", 32, 1, 1, [i \in 1..Len(xs) |-> <<xs[i]>>]) :
     xs \in SeqsUpTo(GuardVals, GuardFrames)}
  \cup {Buf("f", 32, 2, 2, [i \in 1..Len(xs) |-> <<xs[i], ys[i]>>]) :
          xs \in SeqsUpTo(GuardVals, GuardFrames),
          ys \in [1..GuardFrames -> GuardVals]}

InitFn ==
  \/ \E data \in NormalizeInputs :
       Start(Only(ChainCall(data, 5, Fin(DefaultTargetLufs))), "normalize",
             EmptyBuf)
  \/ \E b \in GuardInputs :
       Start(Only(ChainCall(b, 5, Fin(DefaultTargetLufs))), "guard", b)

NextFn == \E r \in Requests : Normalize(r) \/ Guard(r)

SpecFn == InitFn /\ [][NextFn]_vars

Normalized(r) == pc[r] = "highpass" /\ Len(trace[r]) = 1

\* C8: every representable value of every integer encoding is mapped into
\* [-1, 1] by _to_float32_audio, and float input keeps its values.
C8_CanonicalRange ==
  \A r \in Requests :
    Normalized(r) =>
      /\ \A x \in Samples(audio[r]) : FLe(FAbs(x), Fin(S))
      /\ input[r].data.kind = "f" => audio[r].fr = input[r].data.fr

\* the largest magnitude of a buffer of finite samples
C9_Peak(b) ==
  IF Samples(b) = {} THEN 0
  ELSE CHOOSE p \in {Abs(x.v) : x \in Samples(b)} :
         \A x \in Samples(b) : Abs(x.v) <= p

\* C9: _true_peak_guard leaves every sample as it is unless the buffer's peak
\* exceeds targetPeakLinear, and then every sample of every channel is the
\* input sample times the one factor targetPeakLinear / peak; an empty or
\* all-zero buffer comes back as it is.
C9_GuardEffect ==
  \A r \in Requests :
    (Returned(r) /\ Len(trace[r]) = 1) =>
      LET pre == input[r].data
          post == audio[r]
          T == GuardTarget(TargetPeakDb)
      IN  /\ Shape(post) = Shape(pre)
          /\ (Size(pre) = 0 \/ AllZero(pre)) => post = pre
          /\ (AllFinite(pre) /\ C9_Peak(pre) <= T.v) => post.fr = pre.fr
          /\ (AllFinite(pre) /\ C9_Peak(pre) > T.v) =>
               \A i \in 1..NFrames(pre), ch \in 1..pre.nch :
                 post.fr[i][ch] =
                   FMul(pre.fr[i][ch], FDiv(T, Fin(C9_Peak(pre))))
          /\ (\E x \in Samples(pre) : IsNaN(x)) => post.fr = pre.fr
          /\ (~AllFinite(pre) /\ \A x \in Samples(pre) : ~IsNaN(x)) =>
               \A i \in 1..NFrames(pre), ch \in 1..pre.nch :
                 post.fr[i][ch] = FMul(pre.fr[i][ch], FDiv(T, PInf))

C9_Witness ==
  /\ Returned(1)
  /\ Len(trace[1]) = 1
  /\ AllFinite(input[1].data)
  /\ input[1].data.nch = 2
  /\ C9_Peak(input[1].data) > GuardTarget(TargetPeakDb).v
  /\ audio[1] # input[1].data
  /\ \E x \in Samples(audio[1]) : x.v # 0 /\ Abs(x.v) < GuardTarget(TargetPeakDb).v

(* ------------------------------------------------------ the /master route *)
Formats == {"wav", "mp3", "MP3", "flac"}

\* format.lower()
Lower(f) == IF f = "MP3" THEN "mp3" ELSE f

\* sf.write(..., format="WAV", subtype="PCM_16") and pydub's mp3 export are
\* external codecs: a container is the tagged buffer it was made from
Wav(b, sr) == [container |-> "WAV PCM_16", sr |-> sr, audio |-> b]
Mp3(wav) == [container |-> "MP3 320k", sr |-> wav.sr, audio |-> wav.audio]

JsonError(msg) ==
  [status |-> 400, media_type |-> "application/json", body |-> <<"error", msg>>]
FileResponse(media_type, content) ==
  [status |-> 200, media_type |-> media_type, body |-> <<"file", content>>]
\* what the framework answers when the handler lets an exception escape
ServerError ==
  [status |-> 500, media_type |-> "text/plain", body |-> <<"error", "unhandled">>]

\* mutation: the except branch does not return
AfterDecodeFallThrough(ok) == "normalize"

\* where the handler goes after sf.read: into master_chain, or out with a 400
AfterDecode(ok) == IF ok THEN "normalize" ELSE "done"

\* raw = await audio_file.read()
Read(r) ==
  /\ pc[r] = "read"
  /\ pc' = [pc EXCEPT ![r] = "decode"]
  /\ UNCHANGED <<input, audio, loudness, gain_db, gain, trace, response>>

Decode(r) ==
  /\ pc[r] = "decode"
  /\ LET nxt == AfterDecode(input[r].decode_ok)
     IN  /\ pc' = [pc EXCEPT ![r] = nxt]
         /\ response' = IF nxt = "done"
                        THEN [response EXCEPT ![r] = JsonError("Could not read audio")]
                        ELSE response
  /\ UNCHANGED <<input, audio, loudness, gain_db, gain, trace>>

\* mastered = master_chain(...) has returned: write the WAV, then branch on format
WriteWav(r) ==
  /\ pc[r] = "returned"
  /\ trace' = Log(r, "write_wav", audio[Local(r)])
  /\ IF Lower(input[r].format) = "mp3"
     THEN /\ pc' = [pc EXCEPT ![r] = "export_mp3"]
          /\ UNCHANGED response
     ELSE /\ pc' = [pc EXCEPT ![r] = "done"]
          /\ response' = [response EXCEPT ![r] =
               FileResponse("audio/wav", Wav(audio[Local(r)], input[r].sr))]
  /\ UNCHANGED <<input, audio, loudness, gain_db, gain>>

ExportMp3(r) ==
  /\ pc[r] = "export_mp3"
  /\ trace' = Log(r, "export_mp3", audio[Local(r)])
  /\ pc' = [pc EXCEPT ![r] = "done"]
  /\ response' = [response EXCEPT ![r] =
       IF input[r].enc_ok
       THEN FileResponse("audio/mpeg", Mp3(Wav(audio[Local(r)], input[r].sr)))
       ELSE JsonError("MP3 export failed")]
  /\ UNCHANGED <<input, audio, loudness, gain_db, gain>>

\* the meter's exception leaves master_chain and the handler
Unhandled(r) ==
  /\ pc[r] = "raised"
  /\ pc' = [pc EXCEPT ![r] = "done"]
  /\ response' = [response EXCEPT ![r] = ServerError]
  /\ UNCHANGED <<input, audio, loudness, gain_db, gain, trace>>

\* sf.read(..., always_2d=False) gives float64: 1-D for mono, 2-D otherwise
UploadBuffers ==
  {GenBuf(1, 1, vs, 0) : vs \in SeqsUpTo(SampleVals, 2)}
  \cup {GenBuf(2, c, vs, w) : vs \in SeqsUpTo(SampleVals, 2),
                             c \in 2..3, w \in {300}}

UploadTargets == {Fin(DefaultTargetLufs), Fin(6), NaN, PInf, NInf}

Upload(ok, data, sr, format, target, enc_ok) ==
  [present |-> TRUE, decode_ok |-> ok, data |-> IF ok THEN data ELSE EmptyBuf,
   sr |-> sr, format |-> format, target_lufs |-> target, enc_ok |-> enc_ok]

Uploads ==
  {Upload(ok, data, 5, f, t, e) :
     ok \in BOOLEAN, data \in UploadBuffers, f \in Formats,
     t \in UploadTargets, e \in BOOLEAN}

\* the uploads that are in flight together
ConcurrentUploads ==
  {Upload(TRUE, GenBuf(2, 2, <<300, -1000>>, 0), 5, "wav",
          Fin(DefaultTargetLufs), FALSE),
   Upload(TRUE, GenBuf(1, 1, <<-1000, 0, 300>>, 0), 5, "mp3", Fin(6), TRUE),
   Upload(TRUE, GenBuf(1, 1, <<300>>, 0), 5, "wav",
          Fin(DefaultTargetLufs), FALSE),
   Upload(FALSE, EmptyBuf, 5, "mp3", Fin(DefaultTargetLufs), TRUE)}

Init ==
  \/ \E u \in Uploads : Start(Only(u), "read", EmptyBuf)
  \/ \E in \in [Requests -> ConcurrentUploads] : Start(in, "read", EmptyBuf)

Next ==
  \/ NextChain
  \/ \E r \in Requests :
       \/ Read(r)
       \/ Decode(r)
       \/ WriteWav(r)
       \/ ExportMp3(r)
       \/ Unhandled(r)

Spec == Init /\ [][Next]_vars

(* ------------------------------------------------ the /master route: claims *)

\* master_chain(data, sr, target_lufs) as one function of its arguments
MasterChain(data, sr, target_lufs) ==
  LET normalized == ToFloat32Audio(data)
      filtered == Highpass(normalized, sr, HighpassCutoffHz)
      for_lufs == AudioForLufs(filtered)
  IN  IF MeterRaises(for_lufs, sr) THEN [raised |-> TRUE, audio |-> filtered]
      ELSE LET g == DbToLin(FSub(target_lufs, IntegratedLoudness(for_lufs, sr)))
               src == GainInput(filtered, for_lufs)
               gained == MapBuf([x \in Samples(src) |-> FMul(x, g)], src)
               limited == SoftLimiter(gained, LimiterThreshold)
           IN  [raised |-> FALSE,
                audio |-> TruePeakGuard(limited, TargetPeakDb)]

\* the response of the handler to one upload that is served alone
Master(u) ==
  IF ~u.decode_ok THEN JsonError("Could not read audio")
  ELSE LET m == MasterChain(u.data, u.sr, u.target_lufs)
       IN  IF m.raised THEN ServerError
           ELSE IF Lower(u.format) # "mp3"
                THEN FileResponse("audio/wav", Wav(m.audio, u.sr))
           ELSE IF u.enc_ok
                THEN FileResponse("audio/mpeg", Mp3(Wav(m.audio, u.sr)))
           ELSE JsonError("MP3 export failed")

ChainStarted(r) == trace[r] # <<>>
Encoded(r) ==
  \E i \in 1..Len(trace[r]) : trace[r][i].stage \in {"write_wav", "export_mp3"}

\* C5: a request whose target_lufs is NaN or +-Infinity runs no stage of the
\* chain and no encoding, and is answered with an error, never with audio.
C5_NonFiniteTargetRejected ==
  \A r \in Requests :
    (Present(r) /\ ~IsFinite(input[r].target_lufs)) =>
      /\ ~ChainStarted(r)
      /\ Done(r) => (response[r].status # 200 /\ response[r].body[1] = "error")

\* the media type of a format name
MediaTypeOf(f) ==
  CASE f = "wav" -> "audio/wav"
    [] f = "mp3" -> "audio/mpeg"
    [] OTHER -> "audio/" \o f

\* the formats the handler has an encoder for
Producible(u) ==
  \/ Lower(u.format) = "wav"
  \/ Lower(u.format) = "mp3" /\ u.enc_ok

\* C6: a response that carries a file has the media type of the requested
\* format, and a request whose format cannot be produced gets a 4xx error.
C6_NoFormatSubstitution ==
  \A r \in Requests :
    (Done(r) /\ Present(r) /\ input[r].decode_ok /\ response[r].status # 500) =>
      /\ response[r].body[1] = "file"
           => response[r].media_type = MediaTypeOf(Lower(input[r].format))
      /\ ~Producible(input[r])
           => (response[r].status \in 400..499 /\ response[r].body[1] = "error")

\* C7: a request whose decode fails is answered 400 with an error body, and
\* runs no stage of master_chain and no WAV or MP3 encoding; the chain runs
\* only for requests whose decode succeeded.
C7_DecodeFailureStopsRequest ==
  \A r \in Requests :
    Present(r) =>
      /\ ~input[r].decode_ok =>
           /\ pc[r] \in {"read", "decode", "done"}
           /\ ~ChainStarted(r)
           /\ ~Encoded(r)
           /\ audio[r] = EmptyBuf
           /\ Done(r) => response[r] = JsonError("Could not read audio")
      /\ (ChainStarted(r) \/ InChain(r)) => input[r].decode_ok

C7_Witness ==
  /\ Done(1)
  /\ ~input[1].decode_ok
  /\ response[1].status = 400
  /\ trace[1] = <<>>

\* C10: whatever the other requests are and however their steps interleave,
\* a request's response is the one it gets when served alone; equal uploads
\* get equal responses.
C10_RequestsIsolated ==
  /\ \A r \in Requests : (Present(r) /\ Done(r)) => response[r] = Master(input[r])
  /\ \A r1, r2 \in Requests :
       (Present(r1) /\ Present(r2) /\ Done(r1) /\ Done(r2)
          /\ input[r1] = input[r2]) => response[r1] = response[r2]

C10_Witness ==
  /\ Done(1)
  /\ response[1].status = 200
  /\ pc[2] = "apply_gain"
  /\ input[2] # input[1]
  /\ audio[2] # audio[1]
  /\ ~AllZero(audio[1])
====
